---- MODULE Spec2Model ----
(***************************************************************************)
(* Model of src/twitter.py: a Streamlit script that keeps a corpus of      *)
(* tweets (st.session_state.tweets_df) and the last analysis result        *)
(* (st.session_state.analysis_df).  Every user interaction reruns the      *)
(* whole script top to bottom; one action below is one such rerun.         *)
(*                                                                         *)
(* Texts are sequences of one-character strings.  Polarities and           *)
(* thresholds are integers in hundredths (0.5 is 50).  Timestamps are      *)
(* integers: the demo generator ran at time 0, an appended tweet gets the  *)
(* clock value of its rerun.                                               *)
(***************************************************************************)
EXTENDS Integers, Sequences, FiniteSets, TLC

VARIABLES tweets_df,      \* st.session_state.tweets_df: Seq of [created_at, text]
          analysis_df,    \* st.session_state.analysis_df: Seq of classified rows
          now,            \* the clock read by datetime.now() in "Add Tweet"
          add,            \* what the "Add Tweet" branch saw and did in this rerun
          run,            \* what "Load & Analyze" saw and did in this rerun
          error,          \* st.error("No tweets found ...") was shown in this rerun
          summary,        \* the KPIs rendered by "Main Content" in this rerun
          top_positive,   \* the "Top Positive" table of this rerun
          top_negative,   \* the "Top Negative" table of this rerun
          freq,           \* Counter(words).most_common(10) of this rerun
          probe           \* argument and result of one labelling (SpecLabel only)

vars == <<tweets_df, analysis_df, now, add, run, error, summary,
          top_positive, top_negative, freq, probe>>

----------------------------------------------------------------------------
(* Bounds of the model (the program's sizes, scaled down).                 *)

NumDemo == 2
MaxAppends == 1
NumView == 6
NumTrend == 4
MaxRepeat == 3

(* Constants of the program.                                               *)

TopK == 5
TopN == 10
MaxPolarity == 100
MaxThreshold == 50
ThresholdStep == 5

----------------------------------------------------------------------------
(* Characters and strings.                                                 *)


\* str.lower() / re.IGNORECASE on the letters the model uses
Lower(c) ==
  CASE c = "A" -> "a"
    [] c = "B" -> "b"
    [] c = "H" -> "h"
    [] OTHER -> c

\* the characters str.split() treats as separators
IsSpace(c) == c \in {" ", "\t", "\n"}

\* w.startswith(prefix)
StartsWith(w, prefix) ==
  /\ Len(w) >= Len(prefix)
  /\ \A i \in 1..Len(prefix) : w[i] = prefix[i]

HTTP == <<"h", "t", "t", "p">>

\* t.split(): the maximal runs of non-whitespace characters, in order
RECURSIVE SplitFrom(_, _, _, _)
SplitFrom(t, i, cur, acc) ==
  IF i > Len(t)
    THEN IF cur = <<>> THEN acc ELSE Append(acc, cur)
    ELSE IF IsSpace(t[i])
           THEN SplitFrom(t, i + 1, <<>>, IF cur = <<>> THEN acc ELSE Append(acc, cur))
           ELSE SplitFrom(t, i + 1, Append(cur, t[i]), acc)

Split(t) == SplitFrom(t, 1, <<>>, <<>>)

\* one pattern character of the regular expression against one text character
\* (re.IGNORECASE; "." is the wildcard, which does not match a newline)
RegexCharMatches(p, c) ==
  IF p = "." THEN c # "\n" ELSE Lower(p) = Lower(c)

\* Series.str.contains(keyword, case=False): pandas' default regex=True, so
\* the keyword is searched as a regular expression
StrContains(text, keyword) ==
  \E i \in 0..(Len(text) - Len(keyword)) :
    \A j \in 1..Len(keyword) : RegexCharMatches(keyword[j], text[i + j])

----------------------------------------------------------------------------
(* The polarity classifier (TextBlob), an external capability: a           *)
(* deterministic text -> polarity map.  Modelled as a lexicon average.     *)

Lexicon == [w \in {<<"g">>, <<"w">>, <<"b">>, <<"x">>} |->
              CASE w = <<"g">> -> 50
                [] w = <<"w">> -> 90
                [] w = <<"b">> -> -50
                [] w = <<"x">> -> -90]

RECURSIVE SumScores(_)
SumScores(ws) ==
  IF ws = <<>> THEN 0 ELSE Lexicon[Head(ws)] + SumScores(Tail(ws))

TextBlobPolarity(text) ==
  LET scored == SelectSeq(Split(text), LAMBDA w : w \in DOMAIN Lexicon)
  IN IF scored = <<>> THEN 0 ELSE SumScores(scored) \div Len(scored)

----------------------------------------------------------------------------
(* Load & Analyze.                                                         *)

\* the rows of a DataFrame with their index labels (RangeIndex, 0-based)
Rows(df) == [i \in 1..Len(df) |->
               [idx |-> i - 1, created_at |-> df[i].created_at, text |-> df[i].text]]

\* DataFrame.head(n)
HeadN(s, n) == IF Len(s) <= n THEN s ELSE SubSeq(s, 1, n)

\* df[df['text'].str.contains(keyword, case=False)].head(tweet_count)
KeywordFilter(df, keyword, tweet_count) ==
  HeadN(SelectSeq(Rows(df), LAMBDA r : StrContains(r.text, keyword)), tweet_count)

\* the label rule with the comparisons not strict
Sentiment_NotStrict(pol, sentiment_threshold) ==
  IF pol >= sentiment_threshold THEN "Positive"
  ELSE IF pol <= -sentiment_threshold THEN "Negative"
  ELSE "Neutral"

\* the label rule of analyze(row)
Sentiment(pol, sentiment_threshold) ==
  IF pol > sentiment_threshold THEN "Positive"
  ELSE IF pol < -sentiment_threshold THEN "Negative"
  ELSE "Neutral"

\* analyze(row) applied to a row, plus the Time column
Analyze(row, sentiment_threshold) ==
  LET pol == TextBlobPolarity(row.text)
  IN [idx |-> row.idx, created_at |-> row.created_at, text |-> row.text,
      Polarity |-> pol, Sentiment |-> Sentiment(pol, sentiment_threshold),
      Time |-> row.created_at]

Classify(df, sentiment_threshold) ==
  [i \in 1..Len(df) |-> Analyze(df[i], sentiment_threshold)]

\* every order of the positions S in which the keys do not decrease
\* (ascending) or do not increase (descending)
RECURSIVE Orders(_, _, _)
Orders(key, S, ascending) ==
  IF S = {} THEN {<<>>}
  ELSE UNION {{<<m>> \o t : t \in Orders(key, S \ {m}, ascending)} :
                m \in {x \in S : \A y \in S :
                         IF ascending THEN key[x] <= key[y] ELSE key[x] >= key[y]}}

\* DataFrame.sort_values(by, ascending): the default kind is quicksort, which
\* is not stable, so rows with equal keys may come out in any order.  The
\* set of all results the sort may produce.
SortValues(df, by, ascending) ==
  UNION {{[i \in 1..Len(rows) |-> rows[o[i]]] :
            o \in UNION {Orders(key, 1..Len(rows), ascending) :
                           key \in {[i \in 1..Len(rows) |-> rows[i][by]]}}} :
         rows \in {df}}

----------------------------------------------------------------------------
(* Main Content.                                                           *)

\* number of rows carrying a label
CountLabel(df, l) == Cardinality({i \in 1..Len(df) : df[i].Sentiment = l})

\* df['Sentiment'].value_counts(): only the labels that occur have an entry
ValueCounts(df) ==
  [l \in {df[i].Sentiment : i \in 1..Len(df)} |-> CountLabel(df, l)]

\* counts.get(label, 0)
CountsGet(counts, l) == IF l \in DOMAIN counts THEN counts[l] ELSE 0

NoSummary == [rendered |-> FALSE, total |-> 0, Positive |-> 0, Negative |-> 0,
              radar_vals |-> <<>>]

\* the summary with the Negative count read from the Neutral entry
Summary_WrongLabel(df, include_radar) ==
  LET counts == ValueCounts(df)
  IN [rendered |-> TRUE, total |-> Len(df),
      Positive |-> CountsGet(counts, "Positive"),
      Negative |-> CountsGet(counts, "Neutral"),
      radar_vals |-> IF include_radar
                       THEN <<CountsGet(counts, "Positive"),
                              CountsGet(counts, "Negative"),
                              CountsGet(counts, "Neutral")>>
                       ELSE <<>>]

\* the KPI row and the radar values
Summary(df, include_radar) ==
  LET counts == ValueCounts(df)
  IN [rendered |-> TRUE, total |-> Len(df),
      Positive |-> CountsGet(counts, "Positive"),
      Negative |-> CountsGet(counts, "Negative"),
      radar_vals |-> IF include_radar
                       THEN <<CountsGet(counts, "Positive"),
                              CountsGet(counts, "Negative"),
                              CountsGet(counts, "Neutral")>>
                       ELSE <<>>]

\* df[df['Sentiment']==label]
WithLabel(df, l) == SelectSeq(df, LAMBDA r : r.Sentiment = l)

\* Top Positive without the head(5)
TopPositive_NoHead(df) == SortValues(WithLabel(df, "Positive"), "Polarity", FALSE)

\* df[df['Sentiment']=="Positive"].sort_values('Polarity',ascending=False).head(5)
TopPositive(df) ==
  {HeadN(s, TopK) : s \in SortValues(WithLabel(df, "Positive"), "Polarity", FALSE)}

\* df[df['Sentiment']=="Negative"].sort_values('Polarity').head(5)
TopNegative(df) ==
  {HeadN(s, TopK) : s \in SortValues(WithLabel(df, "Negative"), "Polarity", TRUE)}

\* [w for t in df['text'] for w in t.split() if not w.startswith("http")]
RECURSIVE WordsFrom(_, _)
WordsFrom(df, i) ==
  IF i > Len(df) THEN <<>>
  ELSE SelectSeq(Split(df[i].text), LAMBDA w : ~StartsWith(w, HTTP)) \o WordsFrom(df, i + 1)

Words(df) == WordsFrom(df, 1)

\* the keys of Counter(words): the distinct words in order of first appearance
RECURSIVE CounterKeys(_, _)
CounterKeys(words, seen) ==
  IF words = <<>> THEN seen
  ELSE CounterKeys(Tail(words),
                   IF \E k \in 1..Len(seen) : seen[k] = Head(words)
                     THEN seen ELSE Append(seen, Head(words)))

\* Counter(words)[w]
CounterCount(words, w) == Cardinality({i \in 1..Len(words) : words[i] = w})

\* the ranking with equal counts in reverse insertion order
RECURSIVE LargestFirst_LastWins(_, _)
LargestFirst_LastWins(keys, words) ==
  IF keys = <<>> THEN <<>>
  ELSE LET best == CHOOSE i \in 1..Len(keys) :
                     /\ \A j \in 1..Len(keys) :
                          CounterCount(words, keys[j]) <= CounterCount(words, keys[i])
                     /\ \A j \in (i + 1)..Len(keys) :
                          CounterCount(words, keys[j]) < CounterCount(words, keys[i])
           rest == [k \in 1..(Len(keys) - 1) |-> IF k < best THEN keys[k] ELSE keys[k + 1]]
       IN <<<<keys[best], CounterCount(words, keys[best])>>>> \o
          LargestFirst_LastWins(rest, words)

\* Counter(words).most_common(n): heapq.nlargest(n, items, key=count), which is
\* sorted(items, key=count, reverse=True)[:n]; equal counts keep the
\* insertion order of the Counter
RECURSIVE LargestFirst(_, _)
LargestFirst(keys, words) ==
  IF keys = <<>> THEN <<>>
  ELSE LET best == CHOOSE i \in 1..Len(keys) :
                     /\ \A j \in 1..Len(keys) :
                          CounterCount(words, keys[j]) <= CounterCount(words, keys[i])
                     /\ \A j \in 1..(i - 1) :
                          CounterCount(words, keys[j]) < CounterCount(words, keys[i])
           rest == [k \in 1..(Len(keys) - 1) |-> IF k < best THEN keys[k] ELSE keys[k + 1]]
       IN <<<<keys[best], CounterCount(words, keys[best])>>>> \o LargestFirst(rest, words)

MostCommon(words, n) == HeadN(LargestFirst(CounterKeys(words, <<>>), words), n)

----------------------------------------------------------------------------
(* Inputs.                                                                 *)

\* the demo templates with a brand filled in: "A g" (positive), "B b" (negative)
DemoTexts == {<<"A", " ", "g">>, <<"B", " ", "b">>}

\* generate_demo_tweets(n): the choices of the random generator; row i gets
\* created_at = now - timedelta(days, hours) with now = 0, here n different
\* ages 0..n-1 in any order, so arrival order and time order are unrelated
GenerateDemoTweets(n) ==
  {[i \in 1..n |-> [created_at |-> 0 - age[i], text |-> text[i]]] :
     age \in {a \in [1..n -> 0..(n - 1)] : \A i, j \in 1..n : a[i] = a[j] => i = j},
     text \in [1..n -> DemoTexts]}

\* what the user may type into "Add Custom Tweet": nothing, a blank, "a g b"
CustomTweets == {<<>>, <<" ">>, <<"a", " ", "g", " ", "b">>}

\* what the user may type into "Brand Keyword"
Keywords == {<<"a">>, <<".">>}

\* the positions of the "Tweets to Load" slider the model tries (the slider
\* runs from 50 to 500 over a corpus of 1200 rows; scaled down)
TweetCounts == {2, 3}

\* the "Sentiment Threshold" slider: 0.0 to 0.5 in steps of 0.05
Thresholds == {ThresholdStep * i : i \in 0..(MaxThreshold \div ThresholdStep)}

\* the slider positions the session and view specifications try
SampleThresholds == {t \in Thresholds : t \in {0, MaxThreshold}}

\* the polarities the classifier may return: -1.0 to 1.0
Polarities == (0 - MaxPolarity)..MaxPolarity

\* texts of the large corpora: a doubled blank, tokens beginning with "http",
\* "Http" and "ht"; polarities 0.5, 0.9, -0.5 and -0.9
ViewTexts ==
  {<<"A", " ", "g", " ", " ", "c", " ", "d">>,
   <<"A", " ", "w", " ", "h", "t", "t", "p", " ", "e">>,
   <<"A", " ", "b", " ", "H", "t", "t", "p", " ", "f">>,
   <<"A", " ", "x", " ", "h", "t", " ", "i">>}

\* demo corpora of n rows over these texts, the later row the older one; no
\* text more than MaxRepeat times
LargeCorpora(n) ==
  {[i \in 1..n |-> [created_at |-> 0 - i, text |-> f[i]]] :
     f \in {g \in [1..n -> ViewTexts] :
              \A t \in ViewTexts : Cardinality({i \in 1..n : g[i] = t}) <= MaxRepeat}}

----------------------------------------------------------------------------
(* The script.                                                             *)

NoAdd == [clicked |-> FALSE, custom_tweet |-> <<>>, appended |-> FALSE]

NoRun == [triggered |-> FALSE, keyword |-> <<>>, tweet_count |-> 0,
          sentiment_threshold |-> 0, filtered |-> <<>>]

NoProbe == [pol |-> 0, thr |-> 0, sent |-> "unset"]

\* the new row put in front of the corpus
Concat_InFront(df, created_at, text) == <<[created_at |-> created_at, text |-> text]>> \o df

\* pd.concat([tweets_df, DataFrame([{created_at: datetime.now(), text}])],
\*           ignore_index=True)
Concat(df, created_at, text) == Append(df, [created_at |-> created_at, text |-> text])

\* "Main Content": rendered only when the stored result is not empty
MainContent(df, include_radar) ==
  IF df # <<>>
    THEN /\ summary' = Summary(df, include_radar)
         /\ freq' = MostCommon(Words(df), TopN)
         /\ top_positive' \in TopPositive(df)
         /\ top_negative' \in TopNegative(df)
    ELSE /\ summary' = NoSummary
         /\ freq' = <<>>
         /\ top_positive' = <<>>
         /\ top_negative' = <<>>

\* one rerun of the script, top to bottom
Script(add_click, custom_tweet, trigger, keyword, tweet_count, sentiment_threshold, include_radar) ==
  LET appended == add_click /\ custom_tweet # <<>>
      corpus == IF appended THEN Concat(tweets_df, now + 1, custom_tweet) ELSE tweets_df
  IN /\ now' = IF appended THEN now + 1 ELSE now
     /\ tweets_df' = corpus
     /\ add' = IF add_click
                 THEN [clicked |-> TRUE, custom_tweet |-> custom_tweet, appended |-> appended]
                 ELSE NoAdd
     /\ \E df \in {IF trigger THEN KeywordFilter(corpus, keyword, tweet_count) ELSE <<>>} :
          /\ run' = IF trigger
                      THEN [triggered |-> TRUE, keyword |-> keyword,
                            tweet_count |-> tweet_count,
                            sentiment_threshold |-> sentiment_threshold,
                            filtered |-> [i \in 1..Len(df) |-> df[i].idx]]
                      ELSE NoRun
          /\ error' = (trigger /\ df = <<>>)
          /\ \E result \in IF trigger /\ df # <<>>
                              THEN SortValues(Classify(df, sentiment_threshold), "Time", TRUE)
                              ELSE {analysis_df} :
               /\ analysis_df' = result
               /\ MainContent(result, include_radar)
     /\ probe' = probe

\* the session after the first execution of the script
Fresh(corpus, p) ==
  /\ tweets_df = corpus
  /\ analysis_df = <<>>
  /\ now = 0
  /\ add = NoAdd
  /\ run = NoRun
  /\ error = FALSE
  /\ summary = NoSummary
  /\ top_positive = <<>>
  /\ top_negative = <<>>
  /\ freq = <<>>
  /\ probe = p

Init == \E corpus \in GenerateDemoTweets(NumDemo) : Fresh(corpus, NoProbe)

\* the user clicks "Add Tweet", auto refresh off ("Show Radar Sentiment" is
\* left at its default, on, in every rerun but those of Rerender)
AddTweet ==
  /\ now < MaxAppends
  /\ \E custom_tweet \in CustomTweets :
       Script(TRUE, custom_tweet, FALSE, <<>>, 0, 0, TRUE)

\* the user clicks "Add Tweet", auto refresh on
AddTweetAutoRefresh ==
  /\ now < MaxAppends
  /\ \E custom_tweet \in CustomTweets, keyword \in Keywords, tweet_count \in TweetCounts,
        sentiment_threshold \in SampleThresholds :
       Script(TRUE, custom_tweet, TRUE, keyword, tweet_count, sentiment_threshold, TRUE)

\* the user clicks "Run Analysis", or touches a widget while auto refresh is on
RunAnalysis ==
  \E keyword \in Keywords, tweet_count \in TweetCounts,
     sentiment_threshold \in SampleThresholds :
    Script(FALSE, <<>>, TRUE, keyword, tweet_count, sentiment_threshold, TRUE)

\* the user touches a widget while auto refresh is off
Rerender ==
  \E include_radar \in BOOLEAN : Script(FALSE, <<>>, FALSE, <<>>, 0, 0, include_radar)

Next == AddTweet \/ AddTweetAutoRefresh \/ RunAnalysis \/ Rerender

Spec == Init /\ [][Next]_vars

----------------------------------------------------------------------------
(* Large corpora, one run each: every row matches the keyword "a".         *)

\* the one run of a session over a large corpus of n rows
RunLarge(n) ==
  /\ ~run.triggered
  /\ \E tweet_count \in TweetCounts \cup {n}, sentiment_threshold \in SampleThresholds :
       Script(FALSE, <<>>, TRUE, <<"a">>, tweet_count, sentiment_threshold, TRUE)

InitView == \E corpus \in LargeCorpora(NumView) : Fresh(corpus, NoProbe)

RunView == RunLarge(NumView)

NextView == RunView

SpecView == InitView /\ [][NextView]_vars

InitTrend == \E corpus \in LargeCorpora(NumTrend) : Fresh(corpus, NoProbe)

RunTrend == RunLarge(NumTrend)

NextTrend == RunTrend

SpecTrend == InitTrend /\ [][NextTrend]_vars

----------------------------------------------------------------------------
(* The label rule on its own, over all polarities and slider positions.    *)

InitLabel ==
  \E pol \in Polarities, thr \in Thresholds :
    Fresh(<<>>, [pol |-> pol, thr |-> thr, sent |-> "unset"])

Label ==
  /\ probe.sent = "unset"
  /\ probe' = [probe EXCEPT !.sent = Sentiment(probe.pol, probe.thr)]
  /\ UNCHANGED <<tweets_df, analysis_df, now, add, run, error, summary,
                 top_positive, top_negative, freq>>

NextLabel == Label

SpecLabel == InitLabel /\ [][NextLabel]_vars

----------------------------------------------------------------------------
(* Properties.                                                             *)

Min(a, b) == IF a <= b THEN a ELSE b

\* the index labels of a table, as a set
Labels(df) == {df[i].idx : i \in 1..Len(df)}

\* C1: for every polarity in [-1, 1] and threshold in [0, 0.5] the label is
\* exactly one of Positive, Negative, Neutral: Positive iff polarity >
\* threshold, Negative iff polarity < -threshold, Neutral otherwise (so also
\* when polarity equals threshold or -threshold, and at threshold 0).
C1_LabelRule ==
  probe.sent # "unset" =>
    /\ probe.sent \in {"Positive", "Negative", "Neutral"}
    /\ (probe.sent = "Positive") <=> (probe.pol > probe.thr)
    /\ (probe.sent = "Negative") <=> (probe.pol < 0 - probe.thr)
    /\ (probe.sent = "Neutral") <=> (probe.pol <= probe.thr /\ probe.pol >= 0 - probe.thr)

\* a polarity exactly on a non-zero threshold has been labelled
C1_Witness ==
  /\ probe.sent = "Neutral"
  /\ probe.thr > 0
  /\ probe.pol = probe.thr

\* C2: whenever a run is triggered and the keyword filter yields no row, the
\* error is reported and no summary is rendered in that rerun.
C2_NoMatchNoSummary ==
  (run.triggered /\ run.filtered = <<>>) => (error /\ ~summary.rendered)

\* text is empty or consists of whitespace only
Blank(text) == \A i \in 1..Len(text) : IsSpace(text[i])

\* C3: an "Add Tweet" whose text is empty or whitespace only leaves the corpus
\* unchanged; any other adds exactly one row, with that text, at the end.
C3_BlankRejected ==
  [][add'.clicked =>
       IF Blank(add'.custom_tweet)
         THEN tweets_df' = tweets_df /\ ~add'.appended
         ELSE /\ Len(tweets_df') = Len(tweets_df) + 1
              /\ SubSeq(tweets_df', 1, Len(tweets_df)) = tweets_df
              /\ tweets_df'[Len(tweets_df')].text = add'.custom_tweet]_vars

\* C4: after every run the stored result is the result of that run alone:
\* exactly the rows this run's filter selected from the current corpus,
\* labelled with this run's threshold.
C4_ResultOfThisRunAlone ==
  run.triggered =>
    /\ Len(analysis_df) = Len(run.filtered)
    /\ Labels(analysis_df) = {run.filtered[i] : i \in 1..Len(run.filtered)}
    /\ \A i \in 1..Len(analysis_df) :
         /\ analysis_df[i].idx + 1 \in 1..Len(tweets_df)
         /\ analysis_df[i].text = tweets_df[analysis_df[i].idx + 1].text
         /\ analysis_df[i].created_at = tweets_df[analysis_df[i].idx + 1].created_at
         /\ analysis_df[i].Sentiment =
              Sentiment(analysis_df[i].Polarity, run.sentiment_threshold)

\* keyword occurs in text as a substring, letter case ignored
LiteralContains(text, keyword) ==
  \E i \in 0..(Len(text) - Len(keyword)) :
    \A j \in 1..Len(keyword) : Lower(keyword[j]) = Lower(text[i + j])

\* C5: the keyword filter returns the first `limit` rows of the corpus, in
\* corpus order, whose text contains the keyword as a case-insensitive
\* substring (all of them when fewer match, none when none match).
C5_SubstringFilter ==
  run.triggered =>
    run.filtered =
      HeadN(SelectSeq([i \in 1..Len(tweets_df) |-> i - 1],
                      LAMBDA k : LiteralContains(tweets_df[k + 1].text, run.keyword)),
            run.tweet_count)

\* rows ranked by polarity (descending or ascending), rows of equal polarity
\* in corpus order
RECURSIVE CorpusOrderRank(_, _)
CorpusOrderRank(rows, descending) ==
  IF rows = <<>> THEN <<>>
  ELSE LET before(a, b) ==
             \/ IF descending THEN a.Polarity > b.Polarity ELSE a.Polarity < b.Polarity
             \/ a.Polarity = b.Polarity /\ a.idx <= b.idx
           best == CHOOSE i \in 1..Len(rows) : \A j \in 1..Len(rows) : before(rows[i], rows[j])
       IN <<rows[best]>> \o
          CorpusOrderRank([k \in 1..(Len(rows) - 1) |->
                             IF k < best THEN rows[k] ELSE rows[k + 1]], descending)

\* C6: the Top Positive table is the first k rows by polarity descending, rows
\* of equal polarity in corpus insertion order whatever their created_at;
\* Top Negative the same with polarity ascending.
C6_TieBreakCorpusOrder ==
  summary.rendered =>
    /\ top_positive = HeadN(CorpusOrderRank(WithLabel(analysis_df, "Positive"), TRUE), TopK)
    /\ top_negative = HeadN(CorpusOrderRank(WithLabel(analysis_df, "Negative"), FALSE), TopK)

\* number of rows of the stored result that carry a label
Carrying(l) == Cardinality({i \in 1..Len(analysis_df) : analysis_df[i].Sentiment = l})

\* table consists of distinct rows of the stored result that carry label l
RowsCarrying(table, l) ==
  /\ \A i \in 1..Len(table) :
       /\ table[i].Sentiment = l
       /\ \E j \in 1..Len(analysis_df) : analysis_df[j] = table[i]
  /\ Cardinality(Labels(table)) = Len(table)

\* C7 as stated: each table has min(k, size of the classified subset) rows.
C7_AllRecordsWhenFewer ==
  summary.rendered =>
    /\ Len(top_positive) = Min(TopK, Len(analysis_df))
    /\ Len(top_negative) = Min(TopK, Len(analysis_df))

\* C7 (amended): Top Positive holds min(k, number of Positive rows) rows, all
\* of them Positive rows of the result, so all the Positive rows when fewer
\* than k are Positive; Top Negative likewise with the Negative rows.
C7_TopSizes ==
  summary.rendered =>
    /\ Len(top_positive) = Min(TopK, Carrying("Positive"))
    /\ Len(top_negative) = Min(TopK, Carrying("Negative"))
    /\ RowsCarrying(top_positive, "Positive")
    /\ RowsCarrying(top_negative, "Negative")

\* a result of fewer than k rows with rows of both labels, and both tables
\* showing all of theirs
C7_Witness ==
  /\ summary.rendered
  /\ Len(analysis_df) < TopK
  /\ Carrying("Positive") > 0
  /\ Carrying("Negative") > 0
  /\ Len(top_positive) = Carrying("Positive")
  /\ Len(top_negative) = Carrying("Negative")

\* the occurrences <<row, first, last>> of tokens in the texts of a table: the
\* maximal runs of characters that are not whitespace
Occurrences(df) ==
  UNION {{<<r, p[1], p[2]>> :
            p \in {q \in (1..Len(df[r].text)) \X (1..Len(df[r].text)) :
                     /\ q[1] <= q[2]
                     /\ \A k \in q[1]..q[2] : ~IsSpace(df[r].text[k])
                     /\ q[1] = 1 \/ IsSpace(df[r].text[q[1] - 1])
                     /\ q[2] = Len(df[r].text) \/ IsSpace(df[r].text[q[2] + 1])}} :
         r \in 1..Len(df)}

\* the token of an occurrence
TokenOf(df, o) == SubSeq(df[o[1]].text, o[2], o[3])

\* the token begins with the four characters h, t, t, p
BeginsHttp(w) ==
  Len(w) >= 4 /\ w[1] = "h" /\ w[2] = "t" /\ w[3] = "t" /\ w[4] = "p"

\* C8: the trending list holds min(10, number of distinct tokens) entries; the
\* tokens are the whitespace-separated tokens of the texts of the result
\* that do not begin with "http", told apart case-sensitively, each with its
\* number of occurrences over the whole result; the list is in descending
\* count order, equal counts in order of first appearance across the result,
\* and every token left out ranks after every token listed.
C8_Trending ==
  summary.rendered =>
    \A occ \in {{o \in Occurrences(analysis_df) : ~BeginsHttp(TokenOf(analysis_df, o))}} :
      LET count(w) == Cardinality({o \in occ : TokenOf(analysis_df, o) = w})
          first(w) == CHOOSE o \in occ :
                        /\ TokenOf(analysis_df, o) = w
                        /\ \A q \in occ : TokenOf(analysis_df, q) = w =>
                             (o[1] < q[1] \/ (o[1] = q[1] /\ o[2] <= q[2]))
          earlier(v, w) == \/ first(v)[1] < first(w)[1]
                           \/ first(v)[1] = first(w)[1] /\ first(v)[2] < first(w)[2]
          ranksBefore(v, w) == \/ count(v) > count(w)
                               \/ count(v) = count(w) /\ earlier(v, w)
          tokens == {TokenOf(analysis_df, o) : o \in occ}
      IN /\ Len(freq) = Min(TopN, Cardinality(tokens))
         /\ \A k \in 1..Len(freq) :
              /\ freq[k][1] \in tokens
              /\ freq[k][2] = count(freq[k][1])
         /\ \A k, l \in 1..Len(freq) : k < l => ranksBefore(freq[k][1], freq[l][1])
         /\ \A w \in tokens \ {freq[k][1] : k \in 1..Len(freq)} :
              \A k \in 1..Len(freq) : ranksBefore(freq[k][1], w)

\* more than ten distinct tokens, a token beginning with "http" in a text, and
\* a full list with different counts and with equal counts in it
C8_Witness ==
  /\ summary.rendered
  /\ Len(freq) = TopN
  /\ Len(CounterKeys(Words(analysis_df), <<>>)) > TopN
  /\ \E o \in Occurrences(analysis_df) : BeginsHttp(TokenOf(analysis_df, o))
  /\ freq[1][2] > freq[2][2]
  /\ \E k \in 1..(TopN - 1) : freq[k][2] = freq[k + 1][2]

\* C9: the corpus is append-only: the corpus before a rerun is a prefix of the
\* corpus after it, and a rerun that appends nothing (a run with any keyword,
\* limit or threshold included) leaves it unchanged.
C9_AppendOnly ==
  [][/\ Len(tweets_df') >= Len(tweets_df)
     /\ SubSeq(tweets_df', 1, Len(tweets_df)) = tweets_df
     /\ ~add'.appended => tweets_df' = tweets_df]_vars

\* a rerun has appended a tweet and run an analysis over the grown corpus
C9_Witness ==
  /\ add.appended
  /\ run.triggered
  /\ Len(analysis_df) = Len(tweets_df)

\* C10: whenever a summary is rendered, its total is the number of rows of the
\* result, each count is the number of rows carrying that label (0 when there
\* is none), and the three counts add up to the total.
C10_SummaryCounts ==
  summary.rendered =>
    /\ summary.total = Len(analysis_df)
    /\ summary.Positive = Carrying("Positive")
    /\ summary.Negative = Carrying("Negative")
    /\ summary.radar_vals # <<>> =>
         /\ summary.radar_vals = <<Carrying("Positive"), Carrying("Negative"), Carrying("Neutral")>>
         /\ summary.radar_vals[1] + summary.radar_vals[2] + summary.radar_vals[3] = summary.total

\* one row per label, as for polarities 0.2, -0.4, 0.0 at threshold 0.1
C10_Witness ==
  /\ summary.rendered
  /\ summary.total = 3
  /\ summary.radar_vals = <<1, 1, 1>>

====
